---- MODULE Spec2Model ----
(***************************************************************************)
(* SysTick time driver (src/embassy/time_driver_systick.rs).               *)
(*                                                                         *)
(* The model has two execution contexts on one core: the main context,     *)
(* which runs init() once and then calls schedule_wake(), and the SysTick  *)
(* interrupt handler on_interrupt().  The hardware counter advances        *)
(* concurrently with both.  An operation is split at its accesses to the   *)
(* state shared with the other context; main_pc and isr_pc hold each       *)
(* context's position.  A re-arm of the compare register (read CNT,        *)
(* compute, write CMP) is one step.                                        *)
(*                                                                         *)
(* Registers and integers are scaled down: u32 is U32Bits wide and u64 is  *)
(* twice that.  Arithmetic that the code performs on u64 wraps modulo      *)
(* U64_MOD, as in a build without overflow checks.                         *)
(*                                                                         *)
(* Spec lets the counter advance between any two steps.  FairSpec adds     *)
(* fairness and a handler that re-arms within one period of its due check. *)
(* PromptSpec holds the counter while an interrupt is pending or serviced. *)
(* HandlerSpec runs on_interrupt alone from every reading of the counter,  *)
(* the last counts before its wrap included.                               *)
(***************************************************************************)
EXTENDS Integers, Sequences, FiniteSets, TLC

\* ------------------------------------------------------------------ bounds
\* Width of the scaled u32; u64 is twice as wide.
U32Bits == 6
\* The raw counter stops at MaxCnt (far below the wrap of the u64 counter).
MaxCnt == 8
\* Number of schedule_wake calls in one behaviour.
MaxCalls == 2
\* Ordinary deadlines are 0..MaxDeadline.
MaxDeadline == 3

\* --------------------------------------------------------------- constants
U32_MOD == 2 ^ U32Bits
U64_MOD == 2 ^ (2 * U32Bits)
\* u64::MAX, the "no deadline" sentinel of AlarmState::new().
U64_MAX == U64_MOD - 1
\* embassy_time_driver::TICK_HZ, scaled like the clock frequencies below.
TICK_HZ == 2
\* "HCLK/8": the divided clock source of the counter.
HCLK_DIV == 8
\* crate::rcc::clocks().hclk: the frequencies the clock configuration may
\* supply (a u32 in Hz, here scaled).  15 is a core clock below
\* HCLK_DIV * TICK_HZ, as a prescaled HCLK is for a fast tick rate.
HclkValues == {15, 16, 32, 48}
\* A deadline whose product with a period of 2 exceeds the u64 range.
FarDeadline == U64_MOD \div 2
\* The deadlines the executor may pass to schedule_wake.
Deadlines == (0 .. MaxDeadline) \cup {FarDeadline, U64_MAX}

\* The periods init can store, other than 0.
Periods == {p \in 1 .. (U32_MOD - 1) :
               \E hclk \in HclkValues : p = ((hclk \div HCLK_DIV) \div TICK_HZ) % U32_MOD}
\* Readings of the raw counter: the first counts after reset and the last
\* counts before the counter wraps.
RawValues == (0 .. MaxCnt) \cup ((U64_MOD - MaxCnt) .. U64_MAX)

Min(a, b) == IF a <= b THEN a ELSE b

\* Option::None of the waker cell.
None == [id |-> 0, at |-> 0]

VARIABLES
    period,      \* SystickDriver.period (AtomicU32)
    timestamp,   \* SystickDriver.alarms[0].timestamp
    waker,       \* SYSTICK_WAKER: None, or the waker stored by a call, which
                 \* is identified by the call's number and deadline
    cnt,         \* SYSTICK.CNT, the raw counter
    cmp,         \* SYSTICK.CMP, the compare register
    cntif,       \* SYSTICK.SR.CNTIF, the interrupt-pending flag
    ste,         \* SYSTICK.CTLR.STE, counter enable
    stie,        \* SYSTICK.CTLR.STIE, compare interrupt enable
    pfic,        \* the SysTick line is enabled in the interrupt controller
    main_pc,     \* position of the main context
    isr_pc,      \* position of the interrupt handler ("idle": not running)
    sw_at,       \* schedule_wake's argument `at`
    next_timestamp, \* on_interrupt's local of that name
    isr_cnt,     \* the counter value on_interrupt's call of now() read
    panicked,    \* a Rust panic has stopped the program
    calls,       \* history: number of schedule_wake calls made
    last_call,   \* history: the latest call's deadline, its relation to
                 \* now(), and the waker and deadline it displaced
    fired,       \* history: the latest invocation of a waker (<<>>: none yet)
                 \* with what the handler had read
    count,       \* history: per call, the invocations of its waker
    wr           \* history: who wrote CMP last, from which counter reading

vars == <<period, timestamp, waker, cnt, cmp, cntif, ste, stie, pfic,
          main_pc, isr_pc, sw_at, next_timestamp, isr_cnt, panicked,
          calls, last_call, fired, count, wr>>

hw == <<cnt, cmp, cntif, ste, stie, pfic>>
hist == <<calls, last_call, fired, count, wr>>

\* ----------------------------------------------------------- pure functions
\* A now() that rounds up instead of truncating.
now_rounded_up == (cnt + period - 1) \div period

\* A now() that rounds to the nearest tick.
now_nearest == (2 * cnt + period) \div (2 * period)

\* now(): the raw counter divided by the period (defined for period > 0).
now == cnt \div period

\* init's period: (hclk / 8) / TICK_HZ, stored `as u32`.
cnt_per_tick(hclk) == (((hclk \div HCLK_DIV) \div TICK_HZ) % U32_MOD)

\* A compare value of schedule_wake that is one period ahead whatever the
\* deadline.
cmp_val_heartbeat(at, p, t) == (t + p) % U64_MOD

\* schedule_wake: u64::min(at * period, t.wrapping_add(period)).
cmp_val(at, p, t) == Min((at * p) % U64_MOD, (t + p) % U64_MOD)

\* A compare value without the one-period bound.
new_cmp_unbounded(next, p, t) == (next * p) % U64_MOD

\* on_interrupt: u64::min(next_timestamp * period, raw_cnt().wrapping_add(period)).
new_cmp(next, p, t) == Min((next * p) % U64_MOD, (t + p) % U64_MOD)

\* A write of the compare value without the offset of one count.
write_value_no_offset(v) == v % U64_MOD

\* The value handed to rb.cmp().write_value(v + 1).
write_value(v) == (v + 1) % U64_MOD

\* The critical sections of the main context.
InCriticalSection == main_pc \in {"init_clear", "init_enable", "sw_timestamp", "sw_stie", "sw_rearm"}

\* An interrupt that is taken although the main context is inside a critical
\* section.
InterruptTaken_unmasked ==
    /\ cntif /\ stie /\ pfic
    /\ isr_pc = "idle"

\* The core takes the SysTick interrupt: the flag is pending, the compare
\* interrupt and the line are enabled, and interrupts are not masked.
InterruptTaken ==
    /\ cntif /\ stie /\ pfic
    /\ ~InCriticalSection
    /\ isr_pc = "idle"

\* The main context executes only while no handler is running.
MainRuns == isr_pc = "idle" /\ ~panicked

\* ------------------------------------------------------------------- Init
Init ==
    /\ period = 1
    /\ timestamp = U64_MAX
    /\ waker = None
    /\ cnt = 0
    /\ cmp = 0
    /\ cntif \in BOOLEAN
    /\ ste = FALSE
    /\ stie = FALSE
    /\ pfic = FALSE
    /\ main_pc = "boot"
    /\ isr_pc = "idle"
    /\ sw_at = 0
    /\ next_timestamp = 0
    /\ isr_cnt = 0
    /\ panicked = FALSE
    /\ calls = 0
    /\ last_call = [at |-> U64_MAX, rel |-> "none", old_w |-> None, old_at |-> U64_MAX]
    /\ fired = <<>>
    /\ count = [i \in 1 .. MaxCalls |-> 0]
    /\ wr = [by |-> "reset", t |-> 0, target |-> 0]

\* ------------------------------------------------------------------- init
\* init, lines 50-56: derive and store the period.
InitPeriod ==
    /\ main_pc = "boot" /\ MainRuns
    /\ \E hclk \in HclkValues : period' = cnt_per_tick(hclk)
    /\ main_pc' = "init_cmp_max"
    /\ UNCHANGED <<timestamp, waker, hw, isr_pc, sw_at, next_timestamp, isr_cnt, panicked, hist>>

\* init, line 59: rb.cmp().write(u64::MAX - 1).
InitCmpMax ==
    /\ main_pc = "init_cmp_max" /\ MainRuns
    /\ cmp' = U64_MAX - 1
    /\ wr' = [by |-> "init", t |-> cnt, target |-> U64_MAX - 1]
    /\ main_pc' = "init_cmp_zero"
    /\ UNCHANGED <<period, timestamp, waker, cnt, cntif, ste, stie, pfic,
                   isr_pc, sw_at, next_timestamp, isr_cnt, panicked, calls, last_call, fired, count>>

\* init, line 60: rb.cmp().write_value(0).
InitCmpZero ==
    /\ main_pc = "init_cmp_zero" /\ MainRuns
    /\ cmp' = 0
    /\ wr' = [by |-> "init", t |-> cnt, target |-> 0]
    /\ main_pc' = "init_clear"
    /\ UNCHANGED <<period, timestamp, waker, cnt, cntif, ste, stie, pfic,
                   isr_pc, sw_at, next_timestamp, isr_cnt, panicked, calls, last_call, fired, count>>

\* init, line 62: clear CNTIF (inside the critical section).
InitClearFlag ==
    /\ main_pc = "init_clear" /\ MainRuns
    /\ cntif' = FALSE
    /\ main_pc' = "init_enable"
    /\ UNCHANGED <<period, timestamp, waker, cnt, cmp, ste, stie, pfic,
                   isr_pc, sw_at, next_timestamp, isr_cnt, panicked, hist>>

\* An init that also enables the compare interrupt with the counter.
InitEnable_stie ==
    /\ main_pc = "init_enable" /\ MainRuns
    /\ ste' = TRUE
    /\ stie' = TRUE
    /\ main_pc' = "init_pfic"
    /\ UNCHANGED <<period, timestamp, waker, cnt, cmp, cntif, pfic,
                   isr_pc, sw_at, next_timestamp, isr_cnt, panicked, hist>>

\* init, lines 65-71: up-count, no reload, HCLK/8, counter enabled.
InitEnable ==
    /\ main_pc = "init_enable" /\ MainRuns
    /\ ste' = TRUE
    /\ main_pc' = "init_pfic"
    /\ UNCHANGED <<period, timestamp, waker, cnt, cmp, cntif, stie, pfic,
                   isr_pc, sw_at, next_timestamp, isr_cnt, panicked, hist>>

\* pub(crate) fn init, lines 146-149: enable the SysTick line.
EnableInterrupt ==
    /\ main_pc = "init_pfic" /\ MainRuns
    /\ pfic' = TRUE
    /\ main_pc' = "run"
    /\ UNCHANGED <<period, timestamp, waker, cnt, cmp, cntif, ste, stie,
                   isr_pc, sw_at, next_timestamp, isr_cnt, panicked, hist>>

\* --------------------------------------------------------------- hardware
\* The counter counts up by one; CNTIF is set when it reaches CMP.
Tick ==
    /\ ste /\ ~panicked
    /\ cnt < MaxCnt
    /\ cnt' = cnt + 1
    /\ cntif' = (cntif \/ cnt' = cmp)
    /\ UNCHANGED <<period, timestamp, waker, cmp, ste, stie, pfic,
                   main_pc, isr_pc, sw_at, next_timestamp, isr_cnt, panicked, hist>>

\* ---------------------------------------------------------- schedule_wake
\* How the deadline of a call relates to now() at the call's reading of the
\* counter.
Relation(at) ==
    IF period = 0 THEN "undefined"
    ELSE IF now < at THEN "future" ELSE "past"

\* A schedule_wake that queues: it keeps a waker that is already stored.
SwStoreWaker_queue(at) ==
    /\ main_pc = "run" /\ MainRuns
    /\ calls < MaxCalls
    /\ calls' = calls + 1
    /\ waker' = IF waker # None THEN waker ELSE [id |-> calls + 1, at |-> at]
    /\ sw_at' = at
    /\ last_call' = [at |-> at, rel |-> "unread", old_w |-> waker, old_at |-> timestamp]
    /\ main_pc' = "sw_timestamp"
    /\ UNCHANGED <<period, timestamp, hw, isr_pc, next_timestamp, isr_cnt, panicked,
                   fired, count, wr>>

\* schedule_wake, lines 118-120: enter the critical section and replace the
\* stored waker by (a clone of) the caller's.
SwStoreWaker(at) ==
    /\ main_pc = "run" /\ MainRuns
    /\ calls < MaxCalls
    /\ calls' = calls + 1
    /\ waker' = [id |-> calls + 1, at |-> at]
    /\ sw_at' = at
    /\ last_call' = [at |-> at, rel |-> "unread", old_w |-> waker, old_at |-> timestamp]
    /\ main_pc' = "sw_timestamp"
    /\ UNCHANGED <<period, timestamp, hw, isr_pc, next_timestamp, isr_cnt, panicked,
                   fired, count, wr>>

\* schedule_wake, line 122: store the deadline.
SwStoreTimestamp ==
    /\ main_pc = "sw_timestamp" /\ MainRuns
    /\ timestamp' = sw_at
    /\ main_pc' = "sw_stie"
    /\ UNCHANGED <<period, waker, hw, isr_pc, sw_at, next_timestamp, isr_cnt, panicked, hist>>

\* schedule_wake, line 125: enable the compare interrupt.
SwEnableInterrupt ==
    /\ main_pc = "sw_stie" /\ MainRuns
    /\ stie' = TRUE
    /\ main_pc' = "sw_rearm"
    /\ UNCHANGED <<period, timestamp, waker, cnt, cmp, cntif, ste, pfic,
                   isr_pc, sw_at, next_timestamp, isr_cnt, panicked, hist>>

\* schedule_wake, lines 127-132: read the counter, write CMP, leave the
\* critical section.
SwRearm ==
    /\ main_pc = "sw_rearm" /\ MainRuns
    /\ cmp' = write_value(cmp_val(sw_at, period, cnt))
    /\ wr' = [by |-> "schedule_wake", t |-> cnt, target |-> sw_at]
    /\ last_call' = [last_call EXCEPT !.rel = Relation(sw_at)]
    /\ main_pc' = "run"
    /\ UNCHANGED <<period, timestamp, waker, cnt, cntif, ste, stie, pfic,
                   isr_pc, sw_at, next_timestamp, isr_cnt, panicked, calls, fired, count>>

\* ----------------------------------------------------------- on_interrupt
\* SysTick(), lines 136-139, and on_interrupt, line 78: the handler is
\* entered and clears CNTIF.
IsrClearFlag ==
    /\ InterruptTaken /\ ~panicked
    /\ cntif' = FALSE
    /\ isr_pc' = "isr_check"
    /\ UNCHANGED <<period, timestamp, waker, cnt, cmp, ste, stie, pfic,
                   main_pc, sw_at, next_timestamp, isr_cnt, panicked, hist>>

\* A due check that fires only in the tick just before the deadline.
Due_exact(next) == next = now + 1

\* A due check that fires two ticks ahead of the deadline.
Due_two_ahead(next) == ~(next > now + 2)

\* on_interrupt, line 84: the deadline read from the slot is due.
Due(next) == ~(next > (now + 1) % U64_MOD)

\* w.wake(): the invocation is recorded with the deadline and the clock the
\* handler has read.
wake(w) ==
    /\ fired' = <<[w |-> w, at |-> timestamp, now |-> now, raw |-> cnt, calls |-> calls]>>
    /\ count' = [count EXCEPT ![w.id] = @ + 1]

\* A trigger_alarm that wakes the stored waker by reference and leaves the
\* slot and the cell as they are.
trigger_alarm_keep ==
    /\ IF waker # None THEN wake(waker) ELSE UNCHANGED <<fired, count>>
    /\ UNCHANGED <<timestamp, waker>>

\* A trigger_alarm that takes and wakes the waker but leaves the deadline in
\* the slot.
trigger_alarm_no_reset ==
    /\ waker' = None
    /\ IF waker # None THEN wake(waker) ELSE UNCHANGED <<fired, count>>
    /\ UNCHANGED timestamp

\* trigger_alarm, lines 95-100: reset the slot, take and wake the waker.
trigger_alarm ==
    /\ timestamp' = U64_MAX
    /\ waker' = None
    /\ IF waker # None THEN wake(waker) ELSE UNCHANGED <<fired, count>>

\* A due check that takes the waker out of the cell first and drops it when
\* the deadline is not due.
IsrCheck_take_first ==
    /\ isr_pc = "isr_check" /\ ~panicked
    /\ IF period = 0
       THEN /\ panicked' = TRUE
            /\ UNCHANGED <<timestamp, waker, fired, count, next_timestamp, isr_pc>>
       ELSE /\ IF Due(timestamp)
               THEN /\ trigger_alarm
                    /\ next_timestamp' = U64_MAX
               ELSE /\ next_timestamp' = timestamp
                    /\ waker' = None
                    /\ UNCHANGED <<timestamp, fired, count>>
            /\ isr_pc' = "isr_rearm"
            /\ UNCHANGED panicked
    /\ isr_cnt' = cnt
    /\ UNCHANGED <<period, hw, main_pc, sw_at, calls, last_call, wr>>

\* A due check without the early return: the alarm is triggered whether or
\* not the deadline is due.
IsrCheck_no_return ==
    /\ isr_pc = "isr_check" /\ ~panicked
    /\ IF period = 0
       THEN /\ panicked' = TRUE
            /\ UNCHANGED <<timestamp, waker, fired, count, next_timestamp, isr_pc>>
       ELSE /\ trigger_alarm
            /\ next_timestamp' = U64_MAX
            /\ isr_pc' = "isr_rearm"
            /\ UNCHANGED panicked
    /\ isr_cnt' = cnt
    /\ UNCHANGED <<period, hw, main_pc, sw_at, calls, last_call, wr>>

\* on_interrupt, lines 82-89: the due check inside the critical section.
\* now() divides by the period: a period of 0 panics.
IsrCheck ==
    /\ isr_pc = "isr_check" /\ ~panicked
    /\ IF period = 0
       THEN /\ panicked' = TRUE
            /\ UNCHANGED <<timestamp, waker, fired, count, next_timestamp, isr_pc>>
       ELSE /\ IF Due(timestamp)
               THEN /\ trigger_alarm
                    /\ next_timestamp' = U64_MAX
               ELSE /\ next_timestamp' = timestamp
                    /\ UNCHANGED <<timestamp, waker, fired, count>>
            /\ isr_pc' = "isr_rearm"
            /\ UNCHANGED panicked
    /\ isr_cnt' = cnt
    /\ UNCHANGED <<period, hw, main_pc, sw_at, calls, last_call, wr>>

\* A handler that returns without re-arming the compare register.
IsrRearm_skipped ==
    /\ isr_pc = "isr_rearm" /\ ~panicked
    /\ isr_pc' = "idle"
    /\ isr_cnt' = 0
    /\ UNCHANGED <<period, timestamp, waker, hw, main_pc, sw_at,
                   next_timestamp, panicked, hist>>

\* A handler that clears CNTIF when it re-arms, after its due check, instead
\* of on entry.
IsrRearm_clear_late ==
    /\ isr_pc = "isr_rearm" /\ ~panicked
    /\ cmp' = write_value(new_cmp(next_timestamp, period, cnt))
    /\ cntif' = FALSE
    /\ wr' = [by |-> "on_interrupt", t |-> cnt, target |-> next_timestamp]
    /\ isr_pc' = "idle"
    /\ isr_cnt' = 0
    /\ UNCHANGED <<period, timestamp, waker, cnt, ste, stie, pfic,
                   main_pc, sw_at, next_timestamp, panicked, calls, last_call, fired, count>>

\* on_interrupt, lines 91-92: read the counter, write CMP, return.
IsrRearm ==
    /\ isr_pc = "isr_rearm" /\ ~panicked
    /\ cmp' = write_value(new_cmp(next_timestamp, period, cnt))
    /\ wr' = [by |-> "on_interrupt", t |-> cnt, target |-> next_timestamp]
    /\ isr_pc' = "idle"
    /\ isr_cnt' = 0
    /\ UNCHANGED <<period, timestamp, waker, cnt, cntif, ste, stie, pfic,
                   main_pc, sw_at, next_timestamp, panicked, calls, last_call, fired, count>>

\* ------------------------------------------------------------------- Next
init ==
    \/ InitPeriod
    \/ InitCmpMax
    \/ InitCmpZero
    \/ InitClearFlag
    \/ InitEnable
    \/ EnableInterrupt

schedule_wake ==
    \/ \E at \in Deadlines : SwStoreWaker(at)
    \/ SwStoreTimestamp
    \/ SwEnableInterrupt
    \/ SwRearm

on_interrupt ==
    \/ IsrClearFlag
    \/ IsrCheck
    \/ IsrRearm

Next ==
    \/ init
    \/ schedule_wake
    \/ on_interrupt
    \/ Tick

Spec == Init /\ [][Next]_vars

\* The handler is timely: between the counter reading of its due check and
\* its re-arm of the compare register the counter advances by at most one
\* period.
TimelyTick ==
    /\ Tick
    /\ isr_pc = "isr_rearm" => cnt' - isr_cnt <= period

NextTimely ==
    \/ init
    \/ schedule_wake
    \/ on_interrupt
    \/ TimelyTick

\* The counter keeps counting, a pending interrupt is eventually taken, and
\* an operation that has started runs to its end.  Whether and when the
\* executor calls schedule_wake is left open.
Fairness ==
    /\ WF_vars(TimelyTick)
    /\ WF_vars(init)
    /\ WF_vars(SwStoreTimestamp \/ SwEnableInterrupt \/ SwRearm)
    /\ WF_vars(on_interrupt)

FairSpec == Init /\ [][NextTimely]_vars /\ Fairness

\* The handler runs at each compare match: the counter does not advance
\* while the interrupt is pending and enabled, nor while the handler runs.
PromptTick ==
    /\ Tick
    /\ ~(cntif /\ stie /\ pfic)
    /\ isr_pc = "idle"

NextPrompt ==
    \/ init
    \/ schedule_wake
    \/ on_interrupt
    \/ PromptTick

PromptSpec == Init /\ [][NextPrompt]_vars

\* The interrupt handler on its own, for every reading of the raw counter:
\* init and one schedule_wake(D, w) have returned, the counter stands at any
\* of RawValues and the compare match is pending.
HandlerInit ==
    /\ period \in Periods
    /\ cnt \in RawValues
    /\ timestamp \in Deadlines
    /\ waker = [id |-> 1, at |-> timestamp]
    /\ cmp = cnt
    /\ cntif = TRUE
    /\ ste = TRUE
    /\ stie = TRUE
    /\ pfic = TRUE
    /\ main_pc = "run"
    /\ isr_pc = "idle"
    /\ sw_at = timestamp
    /\ next_timestamp = 0
    /\ isr_cnt = 0
    /\ panicked = FALSE
    /\ calls = 1
    /\ last_call = [at |-> timestamp, rel |-> Relation(timestamp),
                    old_w |-> None, old_at |-> U64_MAX]
    /\ fired = <<>>
    /\ count = [i \in 1 .. MaxCalls |-> 0]
    /\ wr = [by |-> "schedule_wake", t |-> cnt, target |-> timestamp]

HandlerSpec == HandlerInit /\ [][on_interrupt]_vars

\* ------------------------------------------------------------ the claims
\* The waker stored by call i has been invoked.
Invoked(i) == count[i] > 0

\* C1 as stated: a waker registered for deadline D is never invoked while
\* now() < D, i.e. while the raw counter is below D * period.
C1_NoEarlierThanDeadline ==
    \A k \in DOMAIN fired : fired[k].raw >= fired[k].w.at * period

\* C1, amended: a waker registered for deadline D is never invoked earlier
\* than one tick before D, i.e. while the raw counter is below
\* (D - 1) * period.
C1_NoEarlierThanOneTickBefore ==
    \A k \in DOMAIN fired : fired[k].raw >= (fired[k].w.at - 1) * period

\* C1 witness: a waker was invoked in the tick before its deadline.
C1_Witness ==
    \E k \in DOMAIN fired :
        /\ fired[k].raw < fired[k].w.at * period
        /\ fired[k].raw >= (fired[k].w.at - 1) * period
        /\ period > 1

\* The deadline of the latest call comes due before the counter stops at
\* MaxCnt.
InHorizon == last_call.at * period + 1 <= MaxCnt

\* Call i has returned, its deadline was ahead of now() at the call's
\* reading of the counter, and its waker is stored.
Pending(i) ==
    /\ calls = i /\ main_pc = "run" /\ waker.id = i
    /\ last_call.rel = "future" /\ InHorizon

\* The waker of call i has been invoked, or a later call has replaced it.
Settled(i) == Invoked(i) \/ calls > i

C3_ReplaceNotQueue ==
    /\ \A k \in DOMAIN fired : fired[k].w.id = fired[k].calls
    /\ (main_pc = "run" /\ waker # None) =>
           (waker.id = calls /\ timestamp = last_call.at)

\* C3 witness: the second call replaced a waker that had not been invoked,
\* with a sooner deadline, and the second call's waker was invoked.
C3_Witness ==
    /\ calls = 2
    /\ last_call.old_w.id = 1
    /\ last_call.at < last_call.old_at
    /\ ~Invoked(1)
    /\ Invoked(2)

\* C4: every stored waker is invoked at most once, and a waker is invoked
\* only by the step of the interrupt handler that finds the deadline due.
C4_AtMostOnceByHandler ==
    /\ [](\A i \in 1 .. MaxCalls : count[i] <= 1)
    /\ [][count' # count =>
            /\ isr_pc = "isr_check" /\ isr_pc' = "isr_rearm"
            /\ Due(timestamp)
            /\ main_pc' = main_pc]_vars

\* C4 witness: two wakers were each invoked once and the handler has run
\* again since.
C4_Witness ==
    /\ Invoked(1) /\ Invoked(2)
    /\ isr_pc = "idle"
    /\ wr.by = "on_interrupt"
    /\ wr.target = U64_MAX
    /\ wr.t > fired[1].raw

\* C5: a waker is invoked only by a handler run whose own reading of the
\* clock has the deadline it read from the slot at most one tick ahead:
\* deadline <= now() + 1.
C5_InvokedOnlyWhenDue ==
    \A k \in DOMAIN fired : fired[k].at <= fired[k].now + 1

\* C5 witness: a waker was invoked by a handler run that read
\* now() = deadline - 1, for a deadline later than tick 1.
C5_Witness ==
    /\ fired # <<>>
    /\ fired[1].at = fired[1].now + 1
    /\ fired[1].at > 1
    /\ period > 1

\* C6 as stated: after init the period is positive, whatever frequency the
\* clock configuration supplied.
C6_PeriodPositive == main_pc # "boot" => period > 0

\* The last write of the compare register was made by schedule_wake or by
\* the interrupt handler; cmp then holds the written value and wr.t the
\* counter at the time of the write.
DriverWrote == wr.by \in {"schedule_wake", "on_interrupt"}

C8_ExactCompare ==
    wr.by = "schedule_wake" =>
        cmp = Min(wr.target * period, wr.t + period) + 1

\* The latest schedule_wake call has returned and a handler run has made its
\* due check since.
HandlerRanSinceCall ==
    /\ calls > 0
    /\ main_pc = "run"
    /\ \/ isr_pc = "isr_rearm"
       \/ isr_pc = "idle" /\ wr.by = "on_interrupt"

\* C9: a deadline already in the past at the call (D <= now()) is due for the
\* first handler run after the call: once a run has followed the call, the
\* call's waker has been invoked and the slot holds the sentinel.
C9_PastDeadlineDue ==
    (HandlerRanSinceCall /\ last_call.rel = "past") =>
        /\ Invoked(calls)
        /\ timestamp = U64_MAX
        /\ waker = None

\* C9 witness: a deadline at least a tick in the past was scheduled, and the
\* handler run that followed invoked its waker at once.
C9_Witness ==
    /\ HandlerRanSinceCall
    /\ isr_pc = "isr_rearm"
    /\ wr.by = "schedule_wake"
    /\ last_call.rel = "past"
    /\ (last_call.at + 1) * period <= wr.t
    /\ Invoked(calls)

\* C10: the handler never runs while the main context is inside
\* schedule_wake; at its due check the stored waker and the stored deadline
\* are those of the same call; and the first run after a call returned has
\* read that call's deadline.
C10_AtomicSchedule ==
    /\ isr_pc # "idle" => ~InCriticalSection
    /\ (isr_pc = "isr_check" /\ waker # None) =>
           (waker.id = calls /\ timestamp = waker.at)
    /\ (isr_pc = "isr_rearm" /\ wr.by = "schedule_wake") =>
           \/ next_timestamp = last_call.at
           \/ /\ fired # <<>>
              /\ fired[1].w.id = calls
              /\ fired[1].at = last_call.at

\* C10 witness: the interrupt became pending while the second schedule_wake
\* held the critical section between its two stores, and the handler has to
\* wait.
C10_Witness ==
    /\ main_pc = "sw_timestamp"
    /\ cntif /\ stie /\ pfic
    /\ isr_pc = "idle"
    /\ calls = 2
    /\ waker.id = 2
    /\ timestamp = last_call.old_at
    /\ last_call.at # last_call.old_at

\* init has returned: the main context is in the executor, inside or outside
\* schedule_wake.
InitDone == main_pc \in {"run", "sw_timestamp", "sw_stie", "sw_rearm"}

\* C11: now() returns floor(raw counter / period), and after init it never
\* decreases from one step of the system to the next, whichever of the
\* counter, schedule_wake and the interrupt handler takes the step (the
\* counter stays below its wrap).
C11_NowFloorMonotone ==
    /\ [](period > 0 => (now * period <= cnt /\ cnt < (now + 1) * period))
    /\ [][(InitDone /\ period > 0) => (period' = period /\ now' >= now)]_vars

\* C11 witness: now() has truncated a counter that is not a multiple of the
\* period, after schedule_wake calls and handler runs.
C11_Witness ==
    /\ InitDone
    /\ period > 1
    /\ cnt % period # 0
    /\ now >= 2
    /\ calls = MaxCalls
    /\ wr.by = "on_interrupt"

\* C12 as stated, for the deadlines that are ahead of the clock at the write
\* (D * period above the counter, far-future ones included): after every
\* write of the compare register by schedule_wake and by the interrupt
\* handler the register holds a value above the counter reading of that
\* write, so the counter still reaches it and another handler run follows.
C12_Heartbeat ==
    (DriverWrote /\ wr.target * period > wr.t) => cmp > wr.t

\* The latest write of the compare register is the handler's, for the
\* sentinel as its next wake target.
HandlerWroteSentinel == wr.by = "on_interrupt" /\ wr.target = U64_MAX

\* C13 as stated: when the handler's next wake target is the sentinel, it
\* writes exactly raw counter + period + 1 (at the width of the register),
\* for every period >= 1 and every raw counter value.
C13_SentinelExact ==
    (HandlerWroteSentinel /\ period >= 1) =>
        cmp = (wr.t + period + 1) % U64_MOD

\* The raw counter is less than two periods, and at least one period, below
\* its wrap: there sentinel * period, which wraps to 2^64 - period, is the
\* smaller operand of the minimum.
NearWrap(t) == U64_MOD - 2 * period < t /\ t < U64_MOD - period

\* C13, amended: when the handler's next wake target is the sentinel, it
\* writes exactly raw counter + period + 1 (at the width of the register),
\* for every period >= 1 and every raw counter value outside the range
\* 2^64 - 2 * period < raw < 2^64 - period; inside that range it writes
\* 2^64 - period + 1.
C13_SentinelExactBelowWrap ==
    (HandlerWroteSentinel /\ period >= 1) =>
        cmp = IF NearWrap(wr.t) THEN U64_MOD - period + 1
              ELSE (wr.t + period + 1) % U64_MOD

\* C13 witness: the alarm has just fired, the product of the sentinel and a
\* period above 1 has wrapped, and the handler wrote raw + period + 1.
C13_Witness ==
    /\ HandlerWroteSentinel
    /\ fired # <<>>
    /\ period > 1
    /\ U64_MAX * period >= U64_MOD
    /\ wr.t > 0
    /\ cmp = wr.t + period + 1

\* C14: a handler run that finds the deadline not due (deadline > now() + 1)
\* leaves the deadline of the slot and the stored waker unchanged and invokes
\* nothing; of the state of the driver and of the timer, its steps change
\* only the interrupt-pending flag (cleared on entry) and the compare
\* register (written by the re-arm, for the deadline it kept).
C14_NotDueFrame ==
    [][isr_pc' # isr_pc =>
        /\ UNCHANGED <<period, cnt, ste, stie, pfic, main_pc, sw_at, calls, last_call>>
        /\ isr_pc = "idle" =>
               /\ cntif' = FALSE
               /\ UNCHANGED <<timestamp, waker, count, fired, cmp>>
        /\ (isr_pc = "isr_check" /\ ~Due(timestamp)) =>
               /\ next_timestamp' = timestamp
               /\ UNCHANGED <<timestamp, waker, count, fired, cmp, cntif>>
        /\ (isr_pc = "isr_rearm" /\ next_timestamp = timestamp) =>
               /\ cmp' = (Min((timestamp * period) % U64_MOD,
                              (cnt + period) % U64_MOD) + 1) % U64_MOD
               /\ UNCHANGED <<timestamp, waker, count, fired, cntif>>
    ]_vars

\* C14 witness: a handler run has found the deadline of a stored waker not
\* due and has returned; the deadline and the waker are still stored and the
\* waker has not been invoked.
C14_Witness ==
    /\ isr_pc = "idle"
    /\ wr.by = "on_interrupt"
    /\ wr.target \in 1 .. MaxDeadline
    /\ timestamp = wr.target
    /\ waker # None
    /\ waker.at = timestamp
    /\ ~Invoked(waker.id)
    /\ cmp = wr.t + period + 1

\* C15: the due check of a handler run that finds the deadline due
\* (deadline <= now() + 1) resets the slot to the sentinel, empties the waker
\* cell and invokes the stored waker once if one was present; the rest of
\* the run leaves slot, cell and invocations as they are, so the run ends
\* with them; and while the cell is empty, which it stays until the next
\* schedule_wake, a handler run invokes nothing.
C15_DueRun ==
    [][isr_pc' # isr_pc =>
        /\ (isr_pc = "isr_check" /\ Due(timestamp)) =>
               /\ timestamp' = U64_MAX
               /\ waker' = None
               /\ next_timestamp' = U64_MAX
               /\ count' = IF waker = None THEN count
                           ELSE [count EXCEPT ![waker.id] = count[waker.id] + 1]
        /\ isr_pc = "isr_rearm" => UNCHANGED <<timestamp, waker, count>>
        /\ waker = None => (count' = count /\ waker' = None)
    ]_vars

\* C15 witness: the waker of the only call was invoked once by a due run,
\* and a later handler run has made its due check with the cell empty and
\* the slot at the sentinel.
C15_Witness ==
    /\ calls = 1
    /\ main_pc = "run"
    /\ count[1] = 1
    /\ isr_pc = "isr_rearm"
    /\ isr_cnt > fired[1].raw
    /\ waker = None
    /\ timestamp = U64_MAX

\* C16: the handler clears the interrupt-pending flag on entry, before its
\* due check and before it writes the compare register, and nothing else
\* clears the flag after init.  So once the counter has reached the compare
\* value that was written last, the flag is pending or a handler run is in
\* progress, also when the match falls right after the handler's re-arm or
\* inside schedule_wake's critical section: no match is lost.
C16_NoMatchLost ==
    /\ []((DriverWrote /\ wr.t < cmp /\ cmp <= cnt) => (cntif \/ isr_pc # "idle"))
    /\ [][(cntif /\ ~cntif') =>
            \/ main_pc = "init_clear"
            \/ isr_pc = "idle" /\ isr_pc' = "isr_check" /\ cmp' = cmp]_vars

\* C16 witness: the counter has reached the compare value of the handler's
\* last re-arm while schedule_wake holds the critical section; the flag is
\* pending and the handler has not run yet.
C16_Witness ==
    /\ wr.by = "on_interrupt"
    /\ cnt = cmp
    /\ cntif
    /\ main_pc = "sw_stie"
    /\ isr_pc = "idle"

\* C17: init writes the compare register to the far-future value, then to
\* zero, then clears the pending flag, then enables the counter, in this
\* order; it does not enable the compare interrupt, so until the first
\* schedule_wake no handler run occurs, nothing is invoked and the slot
\* holds the sentinel.
C17_InitOrder ==
    /\ main_pc = "init_cmp_max" => (cmp = 0 /\ ~ste /\ cnt = 0)
    /\ main_pc = "init_cmp_zero" => (cmp = U64_MAX - 1 /\ ~ste /\ cnt = 0)
    /\ main_pc = "init_clear" => (cmp = 0 /\ ~ste /\ cnt = 0)
    /\ main_pc = "init_enable" => (cmp = 0 /\ ~cntif /\ ~ste /\ cnt = 0)
    /\ main_pc = "init_pfic" => (cmp = 0 /\ ~cntif /\ ste /\ ~pfic)
    /\ calls = 0 =>
           /\ ~stie
           /\ isr_pc = "idle"
           /\ timestamp = U64_MAX
           /\ waker = None
           /\ fired = <<>>
           /\ wr.by \in {"reset", "init"}

\* C17 witness: init has returned and the counter has been counting for
\* several periods; no schedule_wake has been called and no handler has run.
C17_Witness ==
    /\ main_pc = "run"
    /\ calls = 0
    /\ ste /\ pfic
    /\ period > 1
    /\ cnt > 2 * period
    /\ ~cntif
    /\ isr_pc = "idle"
    /\ timestamp = U64_MAX

\* Call i has returned, its deadline was at or behind now() at the call's
\* reading of the counter, its waker is stored, and a compare value one
\* period ahead of that reading is one the counter reaches before it stops
\* at MaxCnt.
PendingPast(i) ==
    /\ calls = i /\ main_pc = "run" /\ waker.id = i
    /\ last_call.rel = "past"
    /\ wr.by = "schedule_wake"
    /\ wr.t + period + 1 <= MaxCnt

\* C18 as stated: a waker stored by schedule_wake(D, w) with D <= now() at
\* the call is eventually invoked, unless a later schedule_wake replaces it,
\* the interrupt being raised only when the counter reaches the compare
\* value.
C18_PastDeadlineInvoked == \A i \in 1 .. MaxCalls : PendingPast(i) ~> Settled(i)

\* The latest invocation is of the waker of the latest call, and that call
\* has returned with its deadline ahead of now().
FiredFuture(k) ==
    /\ fired[k].w.id = calls
    /\ last_call.rel = "future"

\* C19 as stated: with the handler running at each compare match, the run
\* that invokes the waker of a deadline D scheduled while now() < D and not
\* replaced observes now() <= D, for every period >= 1.
C19_BoundedLateness ==
    \A k \in DOMAIN fired : FiredFuture(k) => fired[k].now <= fired[k].w.at

\* C19, amended: with the handler running at each compare match, the run
\* that invokes the waker of a deadline D scheduled while now() < D and not
\* replaced reads a raw counter of at most D * period + 1; so it observes
\* now() <= D for every period >= 2, and now() <= D + 1 for a period of 1.
C19_LatenessOneCount ==
    \A k \in DOMAIN fired :
        FiredFuture(k) =>
            /\ fired[k].raw <= fired[k].w.at * period + 1
            /\ fired[k].now <= fired[k].w.at + (IF period = 1 THEN 1 ELSE 0)

\* C19 witness: a waker scheduled for a future deadline was invoked by the
\* run at the compare match one count after the start of tick D, which
\* observed now() = D.
C19_Witness ==
    /\ fired # <<>>
    /\ FiredFuture(1)
    /\ period > 1
    /\ fired[1].w.at > 1
    /\ fired[1].raw = fired[1].w.at * period + 1
    /\ fired[1].now = fired[1].w.at

\* C20: in every reachable state, a slot that holds a deadline other than
\* the sentinel has a waker stored in the waker cell; equivalently an empty
\* waker cell implies a Disarmed slot.
C20_ArmedHasWaker == timestamp # U64_MAX => waker # None

\* C20 witness: the slot was armed by the first call, disarmed by the handler
\* run that invoked its waker, and is armed again by the second call, whose
\* waker is in the cell.
C20_Witness ==
    /\ calls = 2
    /\ main_pc = "run"
    /\ Invoked(1)
    /\ timestamp \in 0 .. MaxDeadline
    /\ waker.id = 2
    /\ ~Invoked(2)

====
